---- MODULE Spec2Model ----
(***************************************************************************)
(* Model of sync_igpsport_to_garmin.py: the sync-state store               *)
(* (load_last_sync_date / save_last_sync_date), the overlap detector       *)
(* (activities_overlap), the selector (collect_activities_to_sync), the    *)
(* upload retry loop (GarminClient.upload_fit) and the orchestrator        *)
(* (main).                                                                 *)
(*                                                                         *)
(* Timestamps are whole seconds since an epoch; a calendar date is the     *)
(* day number t \div 86400.  Sleeps are in milliseconds.  Python's None    *)
(* is NoneT for timestamps.                                                *)
(***************************************************************************)
EXTENDS Integers, Sequences, FiniteSets, TLC

\* ------------------------------------------------------------------ bounds
MaxRows == 3            \* longest source activity list of a main() run
MaxSelRows == 2         \* longest source activity list of a selector run
MaxSaves == 2
MaxDayRows == 4           \* save_last_sync_date calls of a store run

\* ------------------------------------------------------- program constants
OVERLAP_BUFFER_MINUTES == 5
max_retries == 3
retry_delay == 5
INTER_TRANSFER_SLEEP == 2
DEFAULT_DAYS == 30
RATE_LIMIT_DELAY == 30

DaySecs == 24 * 60 * 60
Hour == 60 * 60
NoneT == 0 - 1

\* datetime.date(): the calendar date of a timestamp
DateOf(t) == t \div DaySecs

\* datetime.datetime(year, month, day): midnight of a calendar date
Midnight(day) == day * DaySecs

\* the wall clock read by load_last_sync_date
Now == 40 * DaySecs + 13 * Hour

\* ------------------------------------------------------- sync-state store
\* The content of last_sync_date.json.  kind:
\*   "missing"     os.path.exists is false
\*   "unreadable"  open(..., "r") raises
\*   "badjson"     json.load raises (empty, truncated or otherwise invalid)
\*   "nokey"       valid JSON without the key "last_sync_date"
\*   "noniso"      the value is not accepted by fromisoformat
\*   "ok"          {"last_sync_date": text}
FileKinds == {"missing", "unreadable", "badjson", "nokey", "noniso", "ok"}

FileOf(kind, text) == [kind |-> kind, text |-> text]

\* datetime.isoformat(): <<date part, time-of-day part>>
IsoFormat(t) == <<t \div DaySecs, t % DaySecs>>

\* datetime.fromisoformat() of what isoformat wrote
FromIsoFormat(s) == s[1] * DaySecs + s[2]

\* variant: the fallback forgets the 30 days
load_last_sync_date_now(f, now) ==
    IF f.kind = "ok" THEN FromIsoFormat(f.text) ELSE now

\* load_last_sync_date(): never raises; every failure gives now - 30 days
load_last_sync_date(f, now) ==
    IF f.kind = "ok" THEN FromIsoFormat(f.text)
    ELSE now - DEFAULT_DAYS * DaySecs

\* Outcomes of one save_last_sync_date call:
\*   "ok"          file opened and written
\*   "open_fail"   open(..., "w") raises, the file is not touched
\*   "write_fail"  open(..., "w") has truncated the file, then the dump,
\*                 the write or the flush at close raises
SaveOutcomes == {"ok", "open_fail", "write_fail"}

save_last_sync_date(f, sync_date, outcome) ==
    CASE outcome = "ok"         -> FileOf("ok", IsoFormat(sync_date))
      [] outcome = "open_fail"  -> f
      [] outcome = "write_fail" -> FileOf("badjson", <<>>)

\* ------------------------------------------------------- overlap detector
\* the test that looks for an end of the second interval inside the first
\* only
activities_overlap_oneway(start_time1, duration1, start_time2, duration2) ==
    LET end_time1 == start_time1 + duration1
        end_time2 == start_time2 + duration2
        buffer == OVERLAP_BUFFER_MINUTES * 60
    IN  \/ (start_time1 - buffer <= start_time2 /\ start_time2 <= end_time1 + buffer)
        \/ (start_time1 - buffer <= end_time2 /\ end_time2 <= end_time1 + buffer)

\* the test with a buffer of six minutes
activities_overlap_sixminutes(start_time1, duration1, start_time2, duration2) ==
    LET end_time1 == start_time1 + duration1
        end_time2 == start_time2 + duration2
        buffer == (OVERLAP_BUFFER_MINUTES + 1) * 60
    IN  \/ (start_time1 - buffer <= start_time2 /\ start_time2 <= end_time1 + buffer)
        \/ (start_time1 - buffer <= end_time2 /\ end_time2 <= end_time1 + buffer)
        \/ (start_time2 - buffer <= start_time1 /\ start_time1 <= end_time2 + buffer)
        \/ (start_time2 - buffer <= end_time1 /\ end_time1 <= end_time2 + buffer)

\* the test without the buffer
activities_overlap_nobuffer(start_time1, duration1, start_time2, duration2) ==
    LET end_time1 == start_time1 + duration1
        end_time2 == start_time2 + duration2
    IN  \/ (start_time1 <= start_time2 /\ start_time2 <= end_time1)
        \/ (start_time1 <= end_time2 /\ end_time2 <= end_time1)
        \/ (start_time2 <= start_time1 /\ start_time1 <= end_time2)
        \/ (start_time2 <= end_time1 /\ end_time1 <= end_time2)

\* activities_overlap(start_time1, duration1, start_time2, duration2)
activities_overlap(start_time1, duration1, start_time2, duration2) ==
    LET end_time1 == start_time1 + duration1
        end_time2 == start_time2 + duration2
        buffer == OVERLAP_BUFFER_MINUTES * 60
    IN  \/ (start_time1 - buffer <= start_time2 /\ start_time2 <= end_time1 + buffer)
        \/ (start_time1 - buffer <= end_time2 /\ end_time2 <= end_time1 + buffer)
        \/ (start_time2 - buffer <= start_time1 /\ start_time1 <= end_time2 + buffer)
        \/ (start_time2 - buffer <= end_time1 /\ end_time1 <= end_time2 + buffer)

\* --------------------------------------------------------------- selector
\* A destination activity: startTimeLocal is a timestamp, or NoneT when
\* dateutil's parse raises on it (missing or malformed).
GarminActivity(startTimeLocal, duration) ==
    [startTimeLocal |-> startTimeLocal, duration |-> duration]

\* A source row of queryMyActivity.  startTime.kind:
\*   "dotted"   "YYYY.MM.DD", v is the day number
\*   "iso"      any string without "." that parse accepts, v is the timestamp
\*   "bad"      a string with "." that has not 3 parts, or that parse or
\*              datetime() rejects
\* detail.kind (the answer of get_activity_detail for the row's rideId):
\*   "empty"    {} (request failed or code != 0)
\*   "badtime"  its startTime is rejected by parse
\*   "ok"       startTime and totalTime usable
\* fitOssPath is TRUE when the row carries a non-empty download reference.
SourceRow(rideId, kind, v, dkind, dstart, ddur, fit) ==
    [rideId |-> rideId,
     startTime |-> [kind |-> kind, v |-> v],
     detail |-> [kind |-> dkind, startTime |-> dstart, totalTime |-> ddur],
     fitOssPath |-> fit]

\* lines 345-351: the destination intervals whose start time parses
GarminTimes(garmin_activities) ==
    LET Parses(a) == a.startTimeLocal # NoneT
        kept == SelectSeq(garmin_activities, Parses)
    IN  [i \in 1..Len(kept) |-> <<kept[i].startTimeLocal, kept[i].duration>>]

\* lines 368-381: the start time parsed from a row, NoneT when the row is
\* skipped because its start time is malformed
RowStartTime(activity) ==
    CASE activity.startTime.kind = "dotted" -> Midnight(activity.startTime.v)
      [] activity.startTime.kind = "iso"    -> activity.startTime.v
      [] OTHER                              -> NoneT

\* the filter that also drops the rows of the watermark's own day
OlderThanLastSync_orsame(start_time, last_sync_date) ==
    DateOf(start_time) <= DateOf(last_sync_date)

\* lines 383-386: "Skip if older than last sync date"
OlderThanLastSync(start_time, last_sync_date) ==
    DateOf(start_time) < DateOf(last_sync_date)

\* the overlap test without the buffer
OverlapsGarmin_nobuffer(detail, garmin_activity_times) ==
    \E i \in 1..Len(garmin_activity_times) :
        /\ garmin_activity_times[i][1] <= detail.startTime + detail.totalTime
        /\ detail.startTime
               <= garmin_activity_times[i][1] + garmin_activity_times[i][2]

\* lines 399-405: overlap with any destination interval
OverlapsGarmin(detail, garmin_activity_times) ==
    \E i \in 1..Len(garmin_activity_times) :
        activities_overlap(detail.startTime, detail.totalTime,
                           garmin_activity_times[i][1],
                           garmin_activity_times[i][2])

\* one iteration of the loop of lines 365-424: TRUE when the row is appended
RowIsSynced(activity, garmin_activity_times, last_sync_date) ==
    /\ RowStartTime(activity) # NoneT
    /\ ~OlderThanLastSync(RowStartTime(activity), last_sync_date)
    /\ activity.detail.kind = "ok"
    /\ ~OverlapsGarmin(activity.detail, garmin_activity_times)
    /\ activity.fitOssPath

\* lines 416-421: the candidate appended for a row
CandidateOf(activity) ==
    [activity_id |-> activity.rideId,
     start_time |-> activity.detail.startTime,
     duration |-> activity.detail.totalTime]

\* a selection that stops at the first row whose start time is malformed,
\* whose detail is empty or malformed or whose download reference is missing
collect_activities_to_sync_aborting(activities, garmin_activities, last_sync_date) ==
    LET garmin_activity_times == GarminTimes(garmin_activities)
        Fails(a) == \/ RowStartTime(a) = NoneT
                    \/ a.detail.kind # "ok"
                    \/ ~a.fitOssPath
        failing == {i \in 1..Len(activities) : Fails(activities[i])}
        stop == IF failing = {} THEN Len(activities) + 1
                ELSE CHOOSE i \in failing : \A j \in failing : i <= j
        Keep(a) == RowIsSynced(a, garmin_activity_times, last_sync_date)
        kept == SelectSeq(SubSeq(activities, 1, stop - 1), Keep)
    IN  [i \in 1..Len(kept) |-> CandidateOf(kept[i])]

\* collect_activities_to_sync once both list requests have answered (lines
\* 344-351 and 362-426): activities are the rows of the source list,
\* garmin_activities is [] when the destination request failed.
collect_activities_to_sync(activities, garmin_activities, last_sync_date) ==
    LET garmin_activity_times == GarminTimes(garmin_activities)
        Keep(a) == RowIsSynced(a, garmin_activity_times, last_sync_date)
        kept == SelectSeq(activities, Keep)
    IN  [i \in 1..Len(kept) |-> CandidateOf(kept[i])]

\* ------------------------------------------------------------------ state
VARIABLES
    file0,               \* last_sync_date.json when the run starts
    file,                \* last_sync_date.json now
    pc,                  \* position of main()
    authenticated,       \* GarminClient.authenticated
    rows,                \* collect_activities_to_sync: activities (the rows
                         \* of the source list), <<>> outside the function
    garmin_list,         \* collect_activities_to_sync: garmin_activities,
                         \* <<>> outside the function
    last_sync_date,      \* main: last_sync_date
    activities_to_sync,  \* main: activities_to_sync
    idx,                 \* main: position of the for loop (1-based)
    sync_count,          \* main: sync_count
    latest_synced_date,  \* main: latest_synced_date
    result,              \* main: result of upload_fit (TRUE: a response)
    slept,               \* main: seconds slept at line 501 for the
                         \* candidate whose result was handled last
    downloaded,          \* main: outcome of the latest download_fit_file
                         \* call, "none" before the first
    retries,             \* upload_fit: retries
    prechecked,          \* upload_fit: the check of line 250 passed
    attempts,            \* calls of garth.client.upload in this call
    delay,               \* upload_fit: delay slept at line 259 before the
                         \* latest attempt (ms), 0 before the first retry
    gap,                 \* total sleep between the latest two attempts (ms)
    error,               \* flavour of the latest failed attempt
    reauthed,            \* authenticate(force=True) ran at line 285 for the
                         \* latest failed attempt
    extra_delay,         \* sleep of line 293 for the latest failed attempt
                         \* (ms), 0 when it was not taken
    tmp_files,           \* temporary .fit files written by this call of
                         \* upload_fit that still exist
    uploaded,            \* indices of candidates whose upload_fit succeeded
    saves,               \* number of save_last_sync_date calls of the run
    save_arg,            \* argument of the latest call, NoneT before
    save_outcome,        \* outcome of the latest call, "none" before
    ov_a,                \* activities_overlap on its own: the first interval
    ov_b,                \* the second interval
    ov_fwd,              \* activities_overlap(ov_a, ov_b) once called
    ov_bwd               \* activities_overlap(ov_b, ov_a) once called

collectVars == <<rows, garmin_list>>
mainVars == <<last_sync_date, activities_to_sync, idx, sync_count,
              latest_synced_date, result, slept, downloaded>>
uploadVars == <<retries, prechecked, attempts, delay, gap, error, reauthed,
                extra_delay, tmp_files>>
saveVars == <<file, saves, save_arg, save_outcome>>
ovVars == <<ov_a, ov_b, ov_fwd, ov_bwd>>
vars == <<file0, collectVars, mainVars, uploadVars, saveVars, uploaded, pc,
          authenticated, ovVars>>

\* ----------------------------------------------------------------- inputs
RideSecs == 60 * 60

\* Start times of the source activities of a main() run: days 9, 10, 11.
MainTimes == {9 * DaySecs + 15 * Hour, 10 * DaySecs + 8 * Hour,
              11 * DaySecs + 8 * Hour}

\* A source row whose list date is the date of its detail start time.
MainRow(t) == SourceRow(t, "dotted", DateOf(t), "ok", t, RideSecs, TRUE)

MainRows == {MainRow(t) : t \in MainTimes}

\* Persisted watermarks a main() run starts from.
MainFiles == {FileOf("missing", <<>>),
              FileOf("ok", IsoFormat(10 * DaySecs + 12 * Hour))}

MainGarminLists ==
    {<<>>, <<GarminActivity(11 * DaySecs + 8 * Hour, RideSecs)>>}

\* random.uniform(0, 2) and random.uniform(0, 10), in ms: both ends of the
\* range
JitterVals == {0, 1999}
ExtraJitterVals == {0, 9999}

\* What str(e) of a failed upload matches: auth is line 282, rate line 290.
UploadErrors == [auth : BOOLEAN, rate : BOOLEAN]
NoError == [auth |-> FALSE, rate |-> FALSE]

\* the locals of upload_fit before the call and after its result is taken
NoUploadFrame ==
    /\ retries = 0
    /\ prechecked = FALSE
    /\ attempts = 0
    /\ delay = 0
    /\ gap = 0
    /\ error = NoError
    /\ reauthed = FALSE
    /\ extra_delay = 0
    /\ tmp_files = 0

\* the frame of upload_fit is left
ResetUploadFrame ==
    /\ retries' = 0
    /\ prechecked' = FALSE
    /\ attempts' = 0
    /\ delay' = 0
    /\ gap' = 0
    /\ error' = NoError
    /\ reauthed' = FALSE
    /\ extra_delay' = 0
    /\ tmp_files' = 0

\* activities_overlap has not been called on its own
NoOverlapCall ==
    /\ ov_a = [start |-> 0, duration |-> 0]
    /\ ov_b = [start |-> 0, duration |-> 0]
    /\ ov_fwd = FALSE
    /\ ov_bwd = FALSE

InitRun ==
    /\ file = file0
    /\ activities_to_sync = <<>>
    /\ idx = 1
    /\ sync_count = 0
    /\ latest_synced_date = NoneT
    /\ result = FALSE
    /\ slept = 0
    /\ downloaded = "none"
    /\ NoUploadFrame
    /\ uploaded = {}
    /\ saves = 0
    /\ save_arg = NoneT
    /\ save_outcome = "none"

Init ==
    /\ file0 \in MainFiles
    /\ pc = "config"
    /\ authenticated = FALSE
    /\ last_sync_date = NoneT
    /\ rows = <<>>
    /\ garmin_list = <<>>
    /\ InitRun
    /\ NoOverlapCall

\* ---------------------------------------------------------------- actions
\* GarminClient.authenticate(force): ok is whether the cached session loads
\* (force = False only) or garth.login succeeds; the flag follows it.
authenticate(ok) == authenticated' = ok

\* GarminClient.get_activities, outcome:
\*   "ok"         authenticated (or authenticate() succeeds), list returned
\*   "auth_fail"  not authenticated and authenticate() fails: []
\*   "api_error"  the request raises: authenticate(force=True), then []
GetActivitiesOutcomes == {"ok", "auth_fail", "api_error"}

get_activities(outcome, response, reauth_ok) ==
    /\ outcome = "auth_fail" => ~authenticated
    /\ garmin_list' = IF outcome = "ok" THEN response ELSE <<>>
    /\ CASE outcome = "ok"        -> authenticate(TRUE)
         [] outcome = "auth_fail" -> authenticate(FALSE)
         [] outcome = "api_error" -> authenticate(reauth_ok)

\* main, lines 444-446
CheckConfig ==
    /\ pc = "config"
    /\ \E ok \in BOOLEAN : pc' = IF ok THEN "login" ELSE "done"
    /\ UNCHANGED <<ovVars, file0, collectVars, mainVars, uploadVars, saveVars,
                   uploaded, authenticated>>

\* main, lines 453-455
Login ==
    /\ pc = "login"
    /\ \E ok \in BOOLEAN : pc' = IF ok THEN "load" ELSE "done"
    /\ UNCHANGED <<ovVars, file0, collectVars, mainVars, uploadVars, saveVars,
                   uploaded, authenticated>>

\* main, line 458
LoadLastSync ==
    /\ pc = "load"
    /\ last_sync_date' = load_last_sync_date(file, Now)
    /\ pc' = "collect"
    /\ UNCHANGED <<ovVars, file0, collectVars, activities_to_sync, idx, sync_count,
                   latest_synced_date, result, slept, downloaded, uploadVars, saveVars,
                   uploaded, authenticated>>

\* collect_activities_to_sync, lines 343 and 356-360: the two list requests;
\* without rows the function returns [] and main returns (lines 464-466)
FetchLists ==
    /\ pc = "collect"
    /\ \E outcome \in GetActivitiesOutcomes :
          \E reauth_ok \in (IF outcome = "api_error" THEN BOOLEAN
                            ELSE {TRUE}),
             response \in (IF outcome = "ok" THEN MainGarminLists
                           ELSE {<<>>}) :
              get_activities(outcome, response, reauth_ok)
    /\ \/ \E n \in 0..MaxRows : \E rs \in [1..n -> MainRows] :
              rows' = rs /\ pc' = "select"
       \/ rows' = <<>> /\ pc' = "done"
    /\ UNCHANGED <<ovVars, file0, mainVars, uploadVars, saveVars, uploaded>>

\* collect_activities_to_sync, lines 344-351 and 362-426: the function is
\* about to return activities_to_sync
Select ==
    /\ pc = "select"
    /\ activities_to_sync' =
           collect_activities_to_sync(rows, garmin_list, last_sync_date)
    /\ UNCHANGED collectVars
    /\ pc' = "collected"
    /\ UNCHANGED <<ovVars, file0, last_sync_date, idx, sync_count,
                   latest_synced_date, result, slept, downloaded, uploadVars, saveVars,
                   uploaded, authenticated>>

\* main, lines 462-468: collect_activities_to_sync has returned and its
\* locals are gone; the run ends when there is nothing to transfer
Found ==
    /\ pc = "collected"
    /\ rows' = <<>>
    /\ garmin_list' = <<>>
    /\ pc' = IF activities_to_sync = <<>> THEN "done" ELSE "auth"
    /\ UNCHANGED <<ovVars, file0, mainVars, uploadVars, saveVars, uploaded,
                   authenticated>>

\* main, lines 471-476
Authenticate ==
    /\ pc = "auth"
    /\ \E ok \in BOOLEAN :
        /\ authenticate(ok)
        /\ pc' = IF ok THEN "download" ELSE "done"
    /\ UNCHANGED <<ovVars, file0, collectVars, mainVars, uploadVars, saveVars,
                   uploaded>>

\* a loop that hands the candidate to upload_fit whatever the download gave
Download_upload ==
    /\ pc = "download"
    /\ idx <= Len(activities_to_sync)
    /\ \E ok \in BOOLEAN :
        /\ pc' = "upload_fit"
        /\ idx' = idx
        /\ downloaded' = IF ok THEN "ok" ELSE "failed"
    /\ UNCHANGED <<ovVars, file0, collectVars, last_sync_date, activities_to_sync,
                   sync_count, latest_synced_date, result, slept, uploadVars,
                   saveVars, uploaded, authenticated>>

\* main, lines 479-488: the next candidate is taken and downloaded; an
\* empty or failed download continues with the next candidate
Download ==
    /\ pc = "download"
    /\ idx <= Len(activities_to_sync)
    /\ \E ok \in BOOLEAN :
        IF ok THEN pc' = "upload_fit" /\ idx' = idx /\ downloaded' = "ok"
        ELSE pc' = "download" /\ idx' = idx + 1 /\ downloaded' = "failed"
    /\ UNCHANGED <<ovVars, file0, collectVars, last_sync_date, activities_to_sync,
                   sync_count, latest_synced_date, result, slept, uploadVars,
                   saveVars, uploaded, authenticated>>

\* upload_fit, lines 246-252
UploadFitEnter ==
    /\ pc = "upload_fit"
    /\ IF authenticated
          THEN /\ prechecked' = TRUE
               /\ UNCHANGED authenticated
          ELSE \E ok \in BOOLEAN :
                   /\ prechecked' = ok
                   /\ authenticate(ok)
    /\ IF prechecked'
          THEN pc' = "attempt" /\ UNCHANGED result
          ELSE pc' = "result" /\ result' = FALSE
    /\ UNCHANGED <<ovVars, file0, collectVars, last_sync_date, activities_to_sync,
                   idx, sync_count, latest_synced_date, slept, downloaded, retries,
                   attempts, delay, gap, error, reauthed, extra_delay,
                   tmp_files, saveVars, uploaded>>

\* variant: the delay does not grow
Backoff_flat(n, jitter) == retry_delay * 1000 + jitter

\* line 257: retry_delay * 2 ** (retries - 1) + jitter, in ms
Backoff(n, jitter) == retry_delay * 1000 * (2 ^ (n - 1)) + jitter

\* line 291: 30 + jitter, in ms
ExtraDelay(jitter) == RATE_LIMIT_DELAY * 1000 + jitter

\* variant: gives up one attempt early
GiveUp_early(r) == r >= max_retries

\* upload_fit, line 295
GiveUp(r) == r > max_retries

\* a handler that treats every failure as a generic one
UploadFailed_generic(e, reauth_ok, xjitter) ==
    /\ error' = e
    /\ retries' = retries + 1
    /\ reauthed' = FALSE
    /\ UNCHANGED authenticated
    /\ extra_delay' = 0
    /\ IF GiveUp(retries')
          THEN pc' = "result" /\ result' = FALSE
          ELSE pc' = "attempt" /\ UNCHANGED result

\* upload_fit, lines 276-297: the handler of a failed attempt
UploadFailed(e, reauth_ok, xjitter) ==
    /\ error' = e
    /\ retries' = retries + 1
    /\ reauthed' = e.auth
    /\ IF e.auth THEN authenticate(reauth_ok) ELSE UNCHANGED authenticated
    /\ extra_delay' = IF e.rate THEN ExtraDelay(xjitter) ELSE 0
    /\ IF GiveUp(retries')
          THEN pc' = "result" /\ result' = FALSE
          ELSE pc' = "attempt" /\ UNCHANGED result

\* upload_fit, one iteration of the loop of lines 254-297
UploadAttempt ==
    /\ pc = "attempt"
    /\ retries <= max_retries
    /\ attempts' = attempts + 1
    /\ IF retries > 0
          THEN \E jitter \in JitterVals :
                   /\ delay' = Backoff(retries, jitter)
                   /\ gap' = extra_delay + delay'
          ELSE UNCHANGED <<delay, gap>>
    /\ \/ \* lines 261-274: the temporary file is written, uploaded and
          \* unlinked
          /\ result' = TRUE
          /\ pc' = "result"
          /\ uploaded' = uploaded \cup {idx}
          /\ UNCHANGED <<retries, error, reauthed, extra_delay, tmp_files,
                         authenticated>>
       \/ \* lines 261-266: the temporary file is written and
          \* garth.client.upload raises
          /\ tmp_files' = tmp_files + 1
          /\ \E e \in UploadErrors :
                \E reauth_ok \in (IF e.auth THEN BOOLEAN ELSE {TRUE}),
                   xjitter \in (IF e.rate THEN ExtraJitterVals ELSE {0}) :
                    UploadFailed(e, reauth_ok, xjitter)
          /\ UNCHANGED uploaded
    /\ UNCHANGED <<ovVars, file0, collectVars, last_sync_date, activities_to_sync,
                   idx, sync_count, latest_synced_date, slept, downloaded, prechecked,
                   saveVars>>

\* variant: the latest upload always becomes the latest synced date
NewLatest_overwrite(latest, start_time) == start_time

\* main, lines 497-498
NewLatest(latest, start_time) ==
    IF latest = NoneT \/ start_time > latest THEN start_time ELSE latest

\* variant: the sleep is taken after a failed upload too
InterTransferSleep_always(res) == INTER_TRANSFER_SLEEP

\* main, lines 492 and 500-503: the seconds slept once upload_fit returned
InterTransferSleep(res) == IF res THEN INTER_TRANSFER_SLEEP ELSE 0

\* main, lines 492-503; the frame of upload_fit is gone
HandleResult ==
    /\ pc = "result"
    /\ LET start_time == activities_to_sync[idx].start_time IN
       IF result
          THEN /\ sync_count' = sync_count + 1
               /\ latest_synced_date' =
                      NewLatest(latest_synced_date, start_time)
          ELSE UNCHANGED <<sync_count, latest_synced_date>>
    /\ slept' = InterTransferSleep(result)
    /\ ResetUploadFrame
    /\ pc' = "checkpoint"
    /\ UNCHANGED <<ovVars, file0, collectVars, last_sync_date, activities_to_sync,
                   idx, result, downloaded, saveVars, uploaded, authenticated>>

\* variant: the call is not guarded
ShouldSave_always(latest, count) == TRUE

\* main, lines 507 and 511
ShouldSave(latest, count) == latest # NoneT /\ count > 0

\* lines 507-508 and 511-512: the guarded call of save_last_sync_date
SaveIfSynced ==
    IF ShouldSave(latest_synced_date, sync_count)
       THEN \E outcome \in SaveOutcomes :
               /\ file' = save_last_sync_date(file, latest_synced_date,
                                              outcome)
               /\ saves' = saves + 1
               /\ save_arg' = latest_synced_date
               /\ save_outcome' = outcome
       ELSE UNCHANGED saveVars

\* a loop that writes the watermark after the last candidate only
Checkpoint_nosave ==
    /\ pc = "checkpoint"
    /\ idx' = idx + 1
    /\ pc' = "download"
    /\ UNCHANGED <<ovVars, file0, collectVars, last_sync_date, activities_to_sync,
                   sync_count, latest_synced_date, result, slept, downloaded, uploadVars,
                   saveVars, uploaded, authenticated>>

\* main, lines 505-508, then the next iteration
Checkpoint ==
    /\ pc = "checkpoint"
    /\ SaveIfSynced
    /\ idx' = idx + 1
    /\ pc' = "download"
    /\ UNCHANGED <<ovVars, file0, collectVars, last_sync_date, activities_to_sync,
                   sync_count, latest_synced_date, result, slept, downloaded, uploadVars,
                   uploaded, authenticated>>

\* main, lines 510-517, after the loop
FinalSave ==
    /\ pc = "download"
    /\ idx > Len(activities_to_sync)
    /\ SaveIfSynced
    /\ pc' = "done"
    /\ UNCHANGED <<ovVars, file0, collectVars, mainVars, uploadVars, uploaded,
                   authenticated>>

Next ==
    \/ CheckConfig
    \/ Login
    \/ LoadLastSync
    \/ FetchLists
    \/ Select
    \/ Found
    \/ Authenticate
    \/ Download
    \/ UploadFitEnter
    \/ UploadAttempt
    \/ HandleResult
    \/ Checkpoint
    \/ FinalSave

Spec == Init /\ [][Next]_vars

\* ---------------------------------------------------- store specification
\* load_last_sync_date and save_last_sync_date on their own: calls in any
\* order on a file of any kind.
StoreTimes == {9 * DaySecs + 15 * Hour, 10 * DaySecs + 8 * Hour,
               10 * DaySecs + 12 * Hour, 11 * DaySecs}

StoreFiles == {FileOf(k, <<>>) : k \in FileKinds \ {"ok"}}
              \cup {FileOf("ok", IsoFormat(t)) : t \in StoreTimes}

InitStore ==
    /\ file0 \in StoreFiles
    /\ pc = "store"
    /\ authenticated = FALSE
    /\ last_sync_date = NoneT
    /\ rows = <<>>
    /\ garmin_list = <<>>
    /\ InitRun
    /\ NoOverlapCall

\* a call of load_last_sync_date (lines 301-314)
StoreLoad ==
    /\ pc = "store"
    /\ last_sync_date' = load_last_sync_date(file, Now)
    /\ UNCHANGED <<ovVars, file0, collectVars, activities_to_sync, idx, sync_count,
                   latest_synced_date, result, slept, downloaded, uploadVars, saveVars,
                   uploaded, pc, authenticated>>

\* a call of save_last_sync_date (lines 316-322); the value loaded before
\* is forgotten
StoreSave ==
    /\ pc = "store"
    /\ saves < MaxSaves
    /\ \E t \in StoreTimes, outcome \in SaveOutcomes :
        /\ file' = save_last_sync_date(file, t, outcome)
        /\ save_arg' = t
        /\ save_outcome' = outcome
    /\ saves' = saves + 1
    /\ last_sync_date' = NoneT
    /\ UNCHANGED <<ovVars, file0, collectVars, activities_to_sync, idx, sync_count,
                   latest_synced_date, result, slept, downloaded, uploadVars, uploaded,
                   pc, authenticated>>

NextStore == StoreLoad \/ StoreSave

SpecStore == InitStore /\ [][NextStore]_vars

\* ------------------------------------------------- selector specification
\* collect_activities_to_sync on its own: the run stands at line 344 with
\* both lists answered, for every bounded source list, destination list
\* and persisted watermark.
SelTimes == {9 * DaySecs + 15 * Hour, 10 * DaySecs + 8 * Hour,
             11 * DaySecs + 8 * Hour}

SelRows ==
    {SourceRow(0, k.kind, k.v, d.kind, d.startTime, d.totalTime, fit) :
        k \in [kind : {"dotted"}, v : {9, 10, 11}]
              \cup {[kind |-> "iso", v |-> 10 * DaySecs + 8 * Hour],
                    [kind |-> "bad", v |-> 0]},
        d \in [kind : {"ok"}, startTime : SelTimes, totalTime : {RideSecs}]
              \cup {[kind |-> "empty", startTime |-> NoneT, totalTime |-> 0],
                    [kind |-> "badtime", startTime |-> NoneT,
                     totalTime |-> 0]},
        fit \in BOOLEAN}

\* no destination activity; one whose start time is malformed; one with the
\* start and the duration of a source activity, alone and after a
\* malformed one; one that ends exactly the buffer before a source activity
\* starts, and one that ends a second earlier
SelGarminLists ==
    {<<>>, <<GarminActivity(NoneT, 0)>>,
     <<GarminActivity(11 * DaySecs + 8 * Hour, RideSecs)>>,
     <<GarminActivity(NoneT, 0),
       GarminActivity(11 * DaySecs + 8 * Hour, RideSecs)>>,
     <<GarminActivity(10 * DaySecs + 8 * Hour - 900, 600)>>,
     <<GarminActivity(10 * DaySecs + 8 * Hour - 901, 600)>>}

SelFiles == {FileOf("missing", <<>>),
             FileOf("ok", IsoFormat(10 * DaySecs + 12 * Hour)),
             FileOf("ok", IsoFormat(11 * DaySecs))}

InitSel ==
    /\ file0 \in SelFiles
    /\ pc = "select"
    /\ authenticated = TRUE
    /\ last_sync_date = load_last_sync_date(file0, Now)
    /\ InitRun
    /\ NoOverlapCall
    /\ \E n \in 0..MaxSelRows : rows \in [1..n -> SelRows]
    /\ garmin_list \in SelGarminLists

NextSel == Select

SpecSel == InitSel /\ [][NextSel]_vars

\* ----------------------------------------------------- days specification
\* collect_activities_to_sync on source lists of up to MaxDayRows rows whose
\* detail and download reference all resolve: the list gives the day of
\* each row in the dotted form, the detail its start at 08:00 of that day or
\* at 23:00 of the day before; the rideId of a row is its position.
DayVals == 9..12

DayOffsets == {8 * Hour, 0 - Hour}

DayRow(i, day, offset) ==
    SourceRow(i, "dotted", day, "ok", day * DaySecs + offset, RideSecs, TRUE)

DayGarminLists ==
    {<<>>, <<GarminActivity(5 * DaySecs, RideSecs)>>,
     <<GarminActivity(11 * DaySecs + 8 * Hour, RideSecs)>>}

InitDays ==
    /\ file0 \in SelFiles
    /\ pc = "select"
    /\ authenticated = TRUE
    /\ last_sync_date = load_last_sync_date(file0, Now)
    /\ InitRun
    /\ NoOverlapCall
    /\ \E n \in 0..MaxDayRows :
        \E days \in [1..n -> DayVals], offsets \in [1..n -> DayOffsets] :
            rows = [i \in 1..n |-> DayRow(i, days[i], offsets[i])]
    /\ garmin_list \in DayGarminLists

NextDays == Select

SpecDays == InitDays /\ [][NextDays]_vars

\* -------------------------------------------------- overlap specification
\* activities_overlap on its own: one call on two intervals, in both
\* orders of the arguments.  Start times and durations are whole seconds
\* around the buffer of OVERLAP_BUFFER_MINUTES * 60 = 300 seconds.
OverlapStarts == {1000 + x : x \in {0, 1, 299, 300, 301, 600, 601, 900, 901}}

OverlapDurations == {0, 1, 300, 600, 1500}

OverlapIntervals == [start : OverlapStarts, duration : OverlapDurations]

InitOverlap ==
    /\ file0 = FileOf("missing", <<>>)
    /\ pc = "overlap"
    /\ authenticated = FALSE
    /\ last_sync_date = NoneT
    /\ rows = <<>>
    /\ garmin_list = <<>>
    /\ InitRun
    /\ ov_a \in OverlapIntervals
    /\ ov_b \in OverlapIntervals
    /\ ov_fwd = FALSE
    /\ ov_bwd = FALSE

\* activities_overlap (lines 324-338) called on (ov_a, ov_b) and on
\* (ov_b, ov_a)
OverlapCall ==
    /\ pc = "overlap"
    /\ ov_fwd' = activities_overlap(ov_a.start, ov_a.duration,
                                    ov_b.start, ov_b.duration)
    /\ ov_bwd' = activities_overlap(ov_b.start, ov_b.duration,
                                    ov_a.start, ov_a.duration)
    /\ pc' = "overlapped"
    /\ UNCHANGED <<ov_a, ov_b, file0, collectVars, mainVars, uploadVars,
                   saveVars, uploaded, authenticated>>

NextOverlap == OverlapCall

SpecOverlap == InitOverlap /\ [][NextOverlap]_vars

TypeOK ==
    /\ pc \in {"config", "login", "load", "collect", "select", "collected",
               "auth", "download", "upload_fit", "attempt", "result",
               "checkpoint", "done", "store", "overlap", "overlapped"}
    /\ downloaded \in {"none", "ok", "failed"}
    /\ ov_fwd \in BOOLEAN /\ ov_bwd \in BOOLEAN
    /\ retries \in 0..(max_retries + 1)
    /\ idx \in 1..(Len(activities_to_sync) + 1)

\* ----------------------------------------------------------------- claims
\* start times of a set of candidates
StartTimes(S) == {activities_to_sync[i].start_time : i \in S}

\* the newest start time among a non-empty set of candidates
MaxStart(S) == CHOOSE m \in StartTimes(S) : \A t \in StartTimes(S) : t <= m

\* the timestamp a well-formed file holds
Persisted(f) == f.text[1] * DaySecs + f.text[2]

\* C1: a run that starts from a persisted watermark W never hands
\* save_last_sync_date a value earlier than W.
C1_WatermarkNeverMovesBack ==
    (file0.kind = "ok" /\ saves > 0) => save_arg >= Persisted(file0)

\* C2 as stated: when main() has finished, the persisted watermark is the
\* newest start time among the candidates uploaded in this run, and it is
\* the one of the start of the run when none was uploaded.
C2_FinalWatermarkIsMax ==
    pc = "done" =>
        /\ sync_count = Cardinality(uploaded)
        /\ IF uploaded = {} THEN file = file0
           ELSE file.kind = "ok" /\ Persisted(file) = MaxStart(uploaded)

\* C2 amended: when main() has finished and none was uploaded, no write was
\* made and the file is the one of the start of the run; otherwise the last
\* value handed to save_last_sync_date is the newest start time among the
\* uploaded candidates, the file holds it when that write succeeded and is
\* malformed when that write failed after the file was opened; the uploaded
\* candidates are the ones counted.
C2_FinalSaveIsMax ==
    pc = "done" =>
        /\ sync_count = Cardinality(uploaded)
        /\ IF uploaded = {} THEN file = file0 /\ saves = 0
           ELSE /\ saves > 0
                /\ save_arg = MaxStart(uploaded)
                /\ save_outcome = "ok" =>
                       file.kind = "ok" /\ Persisted(file) = MaxStart(uploaded)
                /\ save_outcome = "write_fail" => file.kind = "badjson"

\* three candidates, the second one's upload failed, the two others were
\* uploaded out of time order, the final write succeeded
C2_Witness ==
    /\ pc = "done"
    /\ Len(activities_to_sync) = 3
    /\ uploaded = {1, 3}
    /\ activities_to_sync[1].start_time > activities_to_sync[3].start_time
    /\ save_outcome = "ok"

\* C3: every call of save_last_sync_date comes after an upload of this run
\* succeeded, and its argument is the start time of a candidate that has
\* been uploaded.
C3_SaveOnlyAfterSuccess ==
    saves > 0 =>
        /\ uploaded # {}
        /\ save_arg \in StartTimes(uploaded)

\* a write was made although an earlier candidate of the run failed
C3_Witness ==
    /\ saves > 0
    /\ pc = "download"
    /\ idx = 3
    /\ uploaded = {2}

\* a candidate whose upload_fit returned failure is not counted
FailureNotCounted ==
    /\ (pc = "result" /\ ~result) => idx \notin uploaded
    /\ (pc = "checkpoint" /\ ~result) =>
           /\ idx \notin uploaded
           /\ sync_count = Cardinality(uploaded)

\* the watermark is not advanced past the uploaded candidates: the latest
\* synced date is the start time of an uploaded candidate, and a file this
\* run has written holds no later time than the newest of them
WatermarkWithinUploaded ==
    /\ latest_synced_date # NoneT =>
           latest_synced_date \in StartTimes(uploaded)
    /\ \/ file = file0
       \/ file.kind = "badjson"
       \/ file.kind = "ok" /\ uploaded # {}
          /\ Persisted(file) <= MaxStart(uploaded)

\* C4 as stated: an upload_fit call that returns failure has made exactly
\* max_retries + 1 upload attempts, the candidate is not counted, and the
\* watermark is not advanced past the uploaded candidates.
C4_FailureAfterAllAttempts ==
    /\ (pc = "result" /\ ~result) => attempts = max_retries + 1
    /\ FailureNotCounted
    /\ WatermarkWithinUploaded

\* C4 amended: an upload_fit call that returns failure has made exactly
\* max_retries + 1 upload attempts when its authentication check passed and
\* none when it did not; the candidate is not counted, and the watermark is
\* not advanced past the uploaded candidates.
C4_FailureCountsAttempts ==
    /\ (pc = "result" /\ ~result) =>
           attempts = (IF prechecked THEN max_retries + 1 ELSE 0)
    /\ FailureNotCounted
    /\ WatermarkWithinUploaded

\* the second candidate's upload has failed four times after the first
\* candidate was uploaded and saved
C4_Witness ==
    /\ pc = "result"
    /\ ~result
    /\ prechecked
    /\ attempts = max_retries + 1
    /\ idx = 2
    /\ uploaded = {1}
    /\ save_outcome = "ok"

\* the delay of line 259 before the latest attempt is
\* retry_delay * 2^(n-1) plus a jitter in [0, 2) seconds, n the retry
BackoffInRange ==
    delay # 0 =>
        /\ attempts >= 2
        /\ delay - retry_delay * 1000 * (2 ^ (attempts - 2)) \in 0..1999

\* an upload_fit call that returns success after k failures has made k + 1
\* attempts, k <= max_retries, and the candidate is counted
SuccessCountsAttempts ==
    /\ (pc = "result" /\ result) =>
           /\ attempts = retries + 1
           /\ retries <= max_retries
           /\ idx \in uploaded
    /\ (pc = "checkpoint" /\ result) =>
           /\ idx \in uploaded
           /\ sync_count = Cardinality(uploaded)

\* a step of upload_fit that makes the second or a later retry
LaterRetry == pc = "attempt" /\ retries >= 2 /\ attempts' = attempts + 1

\* C5 as stated: k failures then a success are k + 1 attempts, the backoff
\* before retry n is retry_delay * 2^(n-1) plus jitter in [0, 2), the
\* delays between successive attempts are strictly increasing, and the
\* candidate is counted as transferred.
C5_DelaysBetweenAttemptsIncrease ==
    /\ [](SuccessCountsAttempts /\ BackoffInRange)
    /\ [][LaterRetry => gap' > gap]_vars

\* C5 amended: as stated, but it is the backoff sleeps of line 259 that are
\* strictly increasing; the whole delay between two attempts grows from one
\* pair of attempts to the next when the earlier delay holds no rate-limit
\* sleep of line 293.
C5_BackoffsIncrease ==
    /\ [](SuccessCountsAttempts /\ BackoffInRange)
    /\ [][LaterRetry => delay' > delay]_vars
    /\ [][(LaterRetry /\ gap = delay) => gap' > gap]_vars

\* two failures then a success: three attempts
C5_Witness ==
    /\ pc = "result"
    /\ result
    /\ retries = 2
    /\ attempts = 3
    /\ delay > 0

\* C6: whenever upload_fit has returned, none of the temporary files it
\* wrote exists any more.
C6_TempFilesReleased ==
    pc = "result" => tmp_files = 0

\* C7 as stated: once the upload step of a candidate is over, with success
\* or with failure, the 2 s delay has been slept before the next candidate.
C7_SleepAfterEveryUpload ==
    pc = "checkpoint" => slept = INTER_TRANSFER_SLEEP

\* C7 amended: the 2 s delay is slept after a candidate whose upload
\* succeeded, and no delay is slept after a candidate whose upload failed.
C7_SleepAfterSuccessOnly ==
    pc = "checkpoint" =>
        slept = (IF idx \in uploaded THEN INTER_TRANSFER_SLEEP ELSE 0)

\* an upload failed, another candidate follows, and nothing was slept
C7_Witness ==
    /\ pc = "checkpoint"
    /\ idx \notin uploaded
    /\ idx < Len(activities_to_sync)
    /\ slept = 0

\* what load_last_sync_date is to return for a file: the timestamp a
\* well-formed file holds, else now - 30 days
Expected(f) ==
    IF f.kind = "ok" THEN f.text[1] * DaySecs + f.text[2]
    ELSE Now - DEFAULT_DAYS * DaySecs

\* C8: after a save_last_sync_date that failed, a load_last_sync_date
\* returns what it returned before that call.
C8_FailedSaveKeepsWatermark ==
    [][(saves' = saves + 1 /\ save_outcome' # "ok")
           => Expected(file') = Expected(file)]_vars

\* C9: load_last_sync_date returns the persisted timestamp of a
\* well-formed file and now - 30 days for a missing, unreadable or
\* malformed one.
C9_LoadFallsBack ==
    [][pc = "store" /\ last_sync_date' # last_sync_date /\ saves' = saves
           => last_sync_date' = Expected(file)]_vars

\* a file whose value is not an ISO date was loaded
C9_Witness ==
    /\ pc = "store"
    /\ file.kind \in {"noniso", "nokey", "badjson", "unreadable"}
    /\ last_sync_date = Now - DEFAULT_DAYS * DaySecs

\* C10: no candidate returned by collect_activities_to_sync has a
\* start_time on a calendar date before the one of the watermark.
C10_NoCandidateBeforeWatermark ==
    pc \in {"collected", "auth", "done"} =>
        \A i \in DOMAIN activities_to_sync :
            DateOf(activities_to_sync[i].start_time)
                >= DateOf(last_sync_date)

\* two intervals, given by start and duration in seconds, come within the
\* buffer of OVERLAP_BUFFER_MINUTES of each other
WithinBuffer(start1, duration1, start2, duration2) ==
    /\ start2 <= start1 + duration1 + OVERLAP_BUFFER_MINUTES * 60
    /\ start1 <= start2 + duration2 + OVERLAP_BUFFER_MINUTES * 60

\* the source row's detail resolves to an interval that comes within the
\* buffer of the destination activity's interval
RowOverlaps(activity, garmin_activity) ==
    /\ activity.detail.kind = "ok"
    /\ garmin_activity.startTimeLocal # NoneT
    /\ WithinBuffer(activity.detail.startTime, activity.detail.totalTime,
                    garmin_activity.startTimeLocal, garmin_activity.duration)

\* C11: when collect_activities_to_sync returns, no candidate carries the
\* interval (detail start time, totalTime) of a source activity that comes
\* within the 5-minute buffer of the interval of a destination activity; in
\* particular none has the start and the duration of a destination activity.
C11_OverlappingNeverCandidate ==
    pc = "collected" =>
        \A i \in DOMAIN rows, k \in DOMAIN garmin_list :
            RowOverlaps(rows[i], garmin_list[k]) =>
                \A j \in DOMAIN activities_to_sync :
                    ~ /\ activities_to_sync[j].start_time
                           = rows[i].detail.startTime
                      /\ activities_to_sync[j].duration
                           = rows[i].detail.totalTime

\* a source activity that passes every other filter has the start and the
\* duration of a destination activity and is left out, while the other
\* source activity is returned
C11_Witness ==
    /\ pc = "collected"
    /\ Len(rows) = 2
    /\ Len(activities_to_sync) = 1
    /\ \E i \in DOMAIN rows, k \in DOMAIN garmin_list :
        /\ rows[i].detail.kind = "ok"
        /\ rows[i].fitOssPath
        /\ RowStartTime(rows[i]) # NoneT
        /\ ~OlderThanLastSync(RowStartTime(rows[i]), last_sync_date)
        /\ garmin_list[k].startTimeLocal = rows[i].detail.startTime
        /\ garmin_list[k].duration = rows[i].detail.totalTime
        /\ activities_to_sync[1].start_time # rows[i].detail.startTime

\* the calendar date the source list gives for a row
CalendarDate(activity) ==
    IF activity.startTime.kind = "dotted" THEN activity.startTime.v
    ELSE activity.startTime.v \div DaySecs

\* positions of the rows dated on or after the day of the watermark
DatedRows == {i \in DOMAIN rows :
                 CalendarDate(rows[i]) >= DateOf(last_sync_date)}

\* C12: when no destination interval overlaps a source activity and every
\* source activity has a resolvable detail and a download reference, the
\* candidates returned by collect_activities_to_sync are exactly the source
\* activities whose calendar date (the one of the source list) is not before
\* the date of the watermark, in the order of the source list, each with
\* its rideId and the start time and duration of its detail.
C12_CandidatesAreDatedRows ==
    ( /\ pc = "collected"
      /\ \A i \in DOMAIN rows :
            /\ rows[i].startTime.kind # "bad"
            /\ rows[i].detail.kind = "ok"
            /\ rows[i].fitOssPath
            /\ \A k \in DOMAIN garmin_list :
                  ~RowOverlaps(rows[i], garmin_list[k]) )
    => /\ Len(activities_to_sync) = Cardinality(DatedRows)
       /\ \A i \in DatedRows :
            activities_to_sync[Cardinality({j \in DatedRows : j <= i})]
                = [activity_id |-> rows[i].rideId,
                   start_time |-> rows[i].detail.startTime,
                   duration |-> rows[i].detail.totalTime]

\* the watermark is on day 10, the source activities are on days 9, 10, 11
\* and 12, a destination activity exists and overlaps none, and the
\* candidates are the second, third and fourth source activity
C12_Witness ==
    /\ pc = "collected"
    /\ DateOf(last_sync_date) = 10
    /\ Len(rows) = 4
    /\ \A i \in 1..4 : CalendarDate(rows[i]) = 8 + i
    /\ garmin_list = <<GarminActivity(5 * DaySecs, RideSecs)>>
    /\ Len(activities_to_sync) = 3
    /\ \A j \in 1..3 : activities_to_sync[j].activity_id = j + 1

\* C13: activities_overlap gives the same answer when its two intervals
\* are exchanged, for all start times and non-negative durations.
C13_OverlapSymmetric ==
    pc = "overlapped" => ov_fwd = ov_bwd

\* the second interval contains the first with more than the buffer on
\* both sides, and both calls answer True
C13_Witness ==
    /\ pc = "overlapped"
    /\ ov_b.start + OVERLAP_BUFFER_MINUTES * 60 < ov_a.start
    /\ ov_a.start + ov_a.duration + OVERLAP_BUFFER_MINUTES * 60
           < ov_b.start + ov_b.duration
    /\ ov_fwd
    /\ ov_bwd

\* C14: when the second interval starts strictly later than the end of the
\* first plus the 5-minute buffer, activities_overlap answers False, in
\* either order of the arguments.
C14_FalsePastTolerance ==
    ( /\ pc = "overlapped"
      /\ ov_b.start > ov_a.start + ov_a.duration + OVERLAP_BUFFER_MINUTES * 60 )
    => ~ov_fwd /\ ~ov_bwd

\* the second interval starts one second past the buffer after the end of
\* the first, which lasts ten minutes, and the answer is False
C14_Witness ==
    /\ pc = "overlapped"
    /\ ov_a.duration = 600
    /\ ov_b.start = ov_a.start + ov_a.duration + OVERLAP_BUFFER_MINUTES * 60 + 1
    /\ ~ov_fwd
    /\ ~ov_bwd

\* C15: in main(), the step in which the download of a candidate comes back
\* empty or failed moves on to the next candidate and nothing else: the
\* candidate is not counted as transferred, no upload attempt is made (no
\* attempt counted, no temporary file, no upload recorded), nothing is
\* written and the watermark in memory and on disk stays; the loop never
\* goes back to a candidate, so the download is not tried again.
C15_FailedDownloadIsSkipped ==
    [][ /\ idx' >= idx
        /\ ( /\ pc = "download"
              /\ idx <= Len(activities_to_sync)
              /\ downloaded' = "failed" ) =>
              /\ idx' = idx + 1
              /\ pc' = "download"
              /\ UNCHANGED <<sync_count, latest_synced_date, uploadVars,
                             saveVars, uploaded, activities_to_sync>> ]_vars

\* the download of the first of two candidates failed: the loop is at the
\* second one, nothing was uploaded, attempted or written
C15_Witness ==
    /\ pc = "download"
    /\ downloaded = "failed"
    /\ Len(activities_to_sync) = 2
    /\ idx = 2
    /\ sync_count = 0
    /\ uploaded = {}
    /\ tmp_files = 0
    /\ saves = 0
    /\ file = file0

\* no upload was attempted and the watermark was not written
NothingDone ==
    /\ uploaded = {}
    /\ attempts = 0
    /\ tmp_files = 0
    /\ sync_count = 0
    /\ saves = 0
    /\ file = file0

\* C16: the step of main() in which a configuration value is found missing,
\* the source login fails or a destination authentication fails (the one
\* get_activities makes during the collection, or the one of line 471) ends
\* the run, with no upload attempted and no watermark written.
C16_FailureEndsRun ==
    [][ /\ (pc \in {"collect", "auth"} /\ ~authenticated') =>
              pc' = "done"
        /\ (pc \in {"config", "login", "collect", "auth"} /\ pc' = "done") =>
              NothingDone' ]_vars

\* the program points of the transfer loop of main(), lines 479-508
InLoop == pc \in {"download", "upload_fit", "attempt", "result", "checkpoint"}

\* the candidates uploaded in this run whose checkpoint write is behind
\* them: all but the one uploaded in the current iteration
Checkpointed ==
    IF pc \in {"result", "checkpoint"} THEN uploaded \ {idx} ELSE uploaded

\* C17 as stated: at every point of the transfer loop the persisted
\* watermark is well formed and not before the start_time of any candidate
\* uploaded in this run, the one in flight excepted.
C17_PersistedCoversUploaded ==
    InLoop =>
        \A i \in Checkpointed :
            /\ file.kind = "ok"
            /\ Persisted(file) >= activities_to_sync[i].start_time

\* C17 amended: at every point of the transfer loop, once a candidate other
\* than the one in flight was uploaded, a checkpoint write was made and the
\* value handed to the latest one is not before the start_time of any such
\* candidate; the persisted watermark is that value when that write
\* succeeded, and is malformed when it failed after the file was opened.
C17_CheckpointCoversUploaded ==
    (InLoop /\ Checkpointed # {}) =>
        /\ saves > 0
        /\ \A i \in Checkpointed :
              save_arg >= activities_to_sync[i].start_time
        /\ save_outcome = "ok" =>
              file.kind = "ok" /\ Persisted(file) = save_arg
        /\ save_outcome = "write_fail" => file.kind = "badjson"

\* the second candidate, newer than the first, was uploaded and its
\* checkpoint is not written yet: the persisted watermark, written with
\* success after the first, covers the first and not the second
C17_Witness ==
    /\ pc = "checkpoint"
    /\ idx = 2
    /\ uploaded = {1, 2}
    /\ save_outcome = "ok"
    /\ file.kind = "ok"
    /\ Persisted(file) = activities_to_sync[1].start_time
    /\ Persisted(file) < activities_to_sync[2].start_time
\* the source row has one of the per-activity errors
RowFails(activity) ==
    \/ activity.startTime.kind = "bad"
    \/ activity.detail.kind # "ok"
    \/ ~activity.fitOssPath

\* positions of the rows that have no error, are dated on or after the day
\* of the watermark and come within the buffer of no destination activity
\* whose start time is well formed
PassingRows ==
    {i \in DatedRows :
        /\ ~RowFails(rows[i])
        /\ \A k \in DOMAIN garmin_list : ~RowOverlaps(rows[i], garmin_list[k])}

\* C18: collect_activities_to_sync returns, whatever rows or destination
\* activities are in error (malformed start time on either side, empty or
\* malformed detail, missing download reference), exactly the source
\* activities that pass the filters, in the order of the source list: a row
\* in error drops itself only, a destination activity in error drops its
\* own interval only.
C18_ErrorsSkipOneActivity ==
    pc = "collected" =>
        /\ Len(activities_to_sync) = Cardinality(PassingRows)
        /\ \A i \in PassingRows :
              LET j == Cardinality({n \in PassingRows : n <= i})
              IN  /\ activities_to_sync[j].start_time
                       = rows[i].detail.startTime
                  /\ activities_to_sync[j].duration
                       = rows[i].detail.totalTime
                  /\ activities_to_sync[j].activity_id = rows[i].rideId

\* the first row is in error and the first destination activity has a
\* malformed start time; the second row passes and is returned, and the
\* second destination activity is still an interval that rows are tested
\* against
C18_Witness ==
    /\ pc = "collected"
    /\ Len(rows) = 2
    /\ RowFails(rows[1])
    /\ Len(garmin_list) = 2
    /\ garmin_list[1].startTimeLocal = NoneT
    /\ garmin_list[2].startTimeLocal # NoneT
    /\ PassingRows = {2}
    /\ Len(activities_to_sync) = 1
    /\ activities_to_sync[1].start_time = rows[2].detail.startTime
\* C19: in upload_fit, a step in which an attempt fails and another attempt
\* is to follow has called authenticate(force=True) exactly when the failure
\* was authentication-flavoured and has slept the extra delay of 30 s plus a
\* jitter of up to 10 s exactly when it was rate-limit-flavoured (a generic
\* failure does neither and leaves the authenticated flag alone); the
\* attempt that follows comes after that extra delay plus the exponential
\* backoff of the retry.
C19_RecoveryBeforeNextAttempt ==
    [][ /\ (pc = "attempt" /\ pc' = "attempt" /\ retries' = retries + 1) =>
              /\ reauthed' = error'.auth
              /\ ~error'.auth => authenticated' = authenticated
              /\ IF error'.rate
                     THEN extra_delay' \in
                              (RATE_LIMIT_DELAY * 1000)
                                  ..(RATE_LIMIT_DELAY * 1000 + 10000)
                     ELSE extra_delay' = 0
        /\ (pc = "attempt" /\ retries > 0 /\ attempts' = attempts + 1) =>
              /\ gap' = extra_delay + delay'
              /\ delay' >= retry_delay * 1000 * (2 ^ (retries - 1))
              /\ delay' <= retry_delay * 1000 * (2 ^ (retries - 1)) + 2000
              /\ ~error.rate => gap' = delay' ]_vars

\* the first attempt failed with a signal of both flavours, the forced
\* authentication was called and the second attempt, which succeeded, came
\* after the extra delay plus the backoff
C19_Witness ==
    /\ pc = "result"
    /\ result
    /\ attempts = 2
    /\ retries = 1
    /\ error.auth
    /\ error.rate
    /\ reauthed
    /\ extra_delay >= RATE_LIMIT_DELAY * 1000
    /\ delay >= retry_delay * 1000
    /\ gap = extra_delay + delay
\* C20: activities_overlap answers True exactly when each interval starts
\* no later than the end of the other plus the buffer:
\* start2 <= end1 + buffer and start1 <= end2 + buffer.
C20_OverlapIsBufferedIntersection ==
    pc = "overlapped" =>
        ( ov_fwd <=> WithinBuffer(ov_a.start, ov_a.duration,
                                  ov_b.start, ov_b.duration) )

\* two zero-duration points exactly the buffer apart, and True is answered
C20_Witness ==
    /\ pc = "overlapped"
    /\ ov_a.duration = 0
    /\ ov_b.duration = 0
    /\ ov_b.start = ov_a.start + OVERLAP_BUFFER_MINUTES * 60
    /\ ov_fwd
\* what collect_activities_to_sync returns in the next run for a candidate
\* of this run: the run starts from the file as it is now, the source list
\* still has the candidate's row and no destination interval overlaps it
SelectedInNextRun(candidate) ==
    collect_activities_to_sync(<<MainRow(candidate.start_time)>>, <<>>,
                               load_last_sync_date(file, Now))

\* C21: wherever the run is stopped once the candidates are selected, and
\* when it has finished, every candidate that was not uploaded in this run
\* is selected again by collect_activities_to_sync in the next run, which
\* starts from the watermark this run has persisted so far.
C21_UnsentSelectedAgain ==
    (InLoop \/ pc = "done") =>
        \A i \in DOMAIN activities_to_sync :
            i \notin uploaded =>
                SelectedInNextRun(activities_to_sync[i]) # <<>>
\* C22: when upload_fit returns failure because the last permitted attempt
\* has failed (retries > max_retries), the handler of that last failure has
\* made no forced re-authentication and has slept no rate-limit delay.
C22_NoRecoveryAfterLastAttempt ==
    (pc = "result" /\ ~result /\ retries > max_retries) =>
        ~reauthed /\ extra_delay = 0

====
